---- MODULE Spec2Model ----
(***************************************************************************)
(* Model of the output pipeline of the `q` command line client:            *)
(*   - the escape-sequence sanitizer          (src/src/ansi.ts)            *)
(*   - the clipboard sanitizer                (src/src/ansi.ts)            *)
(*   - the context injection guard            (prompt.ts, buildUserPrompt) *)
(*   - the stream runner                      (src/src/run.ts)             *)
(*   - the tool orchestrator                  (src/src/output.ts)          *)
(*   - the clipboard step of the entry point  (src/src/cli.ts)             *)
(*   - the capability connection manager      (src/src/mcp/index.ts)       *)
(*   - the entry point that owns the manager  (cli.ts, later version)      *)
(*                                                                         *)
(* Strings are sequences of UTF-16 code units (integers).                  *)
(***************************************************************************)
EXTENDS Integers, Sequences, FiniteSets, TLC

VARIABLES
    pc,          \* position of the running function
    chunks,      \* fragments the model stream has yielded so far (textStream)
    buffer,      \* createAnsiStripper: the closure's carry-over buffer
    lastIndex,   \* ANSI_REGEX.lastIndex (the regex is global and shared)
    fullText,    \* runQuery: the Answer accumulator
    stdout,      \* process.stdout: the sequence of writes
    clipboard,   \* the OS clipboard: the sequence of values written to it
    thrown,      \* error raised by the running function ("none" when none)
    tools,       \* runQuery (output.ts): options.tools
    steps,       \* generateText: the steps executed so far
    query,       \* buildUserPrompt: the trusted query
    context,     \* buildUserPrompt: the untrusted context (<<>> when falsy)
    userPrompt,  \* buildUserPrompt: the returned prompt
    exitCode,    \* main: its exit code (-1 until it is known)
    stderr,      \* process.stderr: the sequence of writes of the tool events
    debug,       \* options.debug
    config,      \* McpManager.connect: the config argument
    clients,     \* McpManager.clients: the Map, in insertion order
    attempts,    \* connect: the state of each server's connection attempt
    created,     \* every client createMCPClient has returned
    warnings,    \* the warnings logged with logWarn
    closing,     \* close: the clients whose close() has not settled yet
    closed,      \* the client.close() invocations, in order, and how each settled
    closeCount,  \* the McpManager.close() calls that have resolved
    cursor,      \* getTools: how many clients the loop has visited
    allTools,    \* getTools: the catalog under construction
    reported,    \* getTools: what client.tools() gave for each visited client
    catalog,     \* the catalog the last getTools() returned
    ret,         \* where the caller of the awaited manager call goes on
    calls,       \* manager calls made by the caller so far
    requests,    \* runQuery: the generation calls issued (streamText, generateText)
    strippers    \* the closures createAnsiStripper returned, each with its buffer

streamVars == <<chunks, buffer, lastIndex>>
toolVars == <<tools, steps>>
promptVars == <<query, context, userPrompt>>
hostVars == <<exitCode, stderr, debug>>
mcpVars == <<config, clients, attempts, created, warnings, closing, closed,
             closeCount, cursor, allTools, reported, catalog, ret, calls>>

vars == <<pc, chunks, buffer, lastIndex, fullText, stdout, clipboard, thrown,
          tools, steps, query, context, userPrompt, exitCode, stderr, debug,
          config, clients, attempts, created, warnings, closing, closed,
          closeCount, cursor, allTools, reported, catalog, ret, calls,
          requests, strippers>>

genVars == <<requests, strippers>>

\* No generation call issued, no stripper created.
GenIdle ==
    /\ requests = <<>>
    /\ strippers = <<>>

\* No process.exit yet, nothing on stderr, debug off.
HostIdle ==
    /\ exitCode = -1
    /\ stderr = <<>>
    /\ debug = FALSE

\* new McpManager(): no client, nothing in flight.
McpIdle ==
    /\ config = [defined |-> FALSE, enabled |-> TRUE, servers |-> {}]
    /\ clients = <<>>
    /\ attempts = <<>>
    /\ created = <<>>
    /\ warnings = <<>>
    /\ closing = {}
    /\ closed = <<>>
    /\ closeCount = 0
    /\ cursor = 0
    /\ allTools = {}
    /\ reported = <<>>
    /\ catalog = {}
    /\ ret = "none"
    /\ calls = 0

----------------------------------------------------------------------------
(* Code units that the code names.                                         *)

ESC == 27
CSI == 155
BEL == 7
LF == 10
SEMI == 59

(* Bounds of the model.                                                    *)

MaxStream == 4

(* The code units the model stream draws from: ESC, CSI, BEL, ';', LF,     *)
(* '3', '[' and 'm'.                                                       *)
StreamAlphabet == {ESC, CSI, BEL, SEMI, LF, 51, 91, 109}

----------------------------------------------------------------------------
(* Sequence helpers.                                                       *)

RECURSIVE Flatten(_)
Flatten(ss) == IF ss = <<>> THEN <<>> ELSE Head(ss) \o Flatten(Tail(ss))

Slice(s, from, to) == IF from > to THEN <<>> ELSE SubSeq(s, from, to)

\* Strings over alphabet A of length at most n.
StringsUpTo(A, n) == UNION {[1..k -> A] : k \in 0..n}

Min(a, b) == IF a < b THEN a ELSE b

----------------------------------------------------------------------------
(* ANSI_REGEX, by the backtracking order of the regular expression engine. *)
(* Positions are 1-based; an "end" is the position after the match, 0 is   *)
(* "no match".                                                             *)

IsIntroducer(c) == c = ESC \/ c = CSI

\* [[\]()#;?]
IsPrefixChar(c) == c \in {91, 93, 40, 41, 35, 59, 63}

\* \d
IsDigit(c) == c \in 48..57

\* [a-zA-Z\d]
IsAlnum(c) == IsDigit(c) \/ c \in 65..90 \/ c \in 97..122

\* [-a-zA-Z\d\/#&.:=?%@~_]
IsWordChar(c) == IsAlnum(c) \/ c \in {45, 47, 35, 38, 46, 58, 61, 63, 37, 64, 126, 95}

\* [\dA-PR-TZcf-nq-uy=><~]
IsFinalChar(c) ==
    \/ IsDigit(c)
    \/ c \in 65..80 \/ c \in 82..84 \/ c = 90
    \/ c = 99 \/ c \in 102..110 \/ c \in 113..117 \/ c = 121
    \/ c \in {61, 62, 60, 126}

\* Length of the longest run of characters satisfying a class, from p.
RECURSIVE PrefixRun(_, _)
PrefixRun(s, p) ==
    IF p <= Len(s) /\ IsPrefixChar(s[p]) THEN 1 + PrefixRun(s, p + 1) ELSE 0

RECURSIVE DigitRun(_, _)
DigitRun(s, p) ==
    IF p <= Len(s) /\ IsDigit(s[p]) THEN 1 + DigitRun(s, p + 1) ELSE 0

\* First alternative:
\*   (?:(?:;W+)*|[a-zA-Z\d]+(?:;W*)*)?\u0007
\* The body's classes exclude BEL, so the body is what lies before the
\* first BEL; it matches when it is empty, or of the form (;W+)*, or of the
\* form A+(;W*)*.
RECURSIVE BodyEnd(_, _)
BodyEnd(s, p) ==
    IF p <= Len(s) /\ (IsWordChar(s[p]) \/ s[p] = SEMI)
    THEN BodyEnd(s, p + 1) ELSE p

OscBodyOk(t) ==
    \/ t = <<>>
    \/ /\ t[1] = SEMI
       /\ t[Len(t)] # SEMI
       /\ \A i \in 1..(Len(t) - 1) : ~(t[i] = SEMI /\ t[i + 1] = SEMI)
    \/ /\ t[1] # SEMI
       /\ \A i \in 1..Len(t) :
             (\A j \in 1..i : t[j] # SEMI) => IsAlnum(t[i])

Alt1End(s, p) ==
    LET j == BodyEnd(s, p) IN
    IF j <= Len(s) /\ s[j] = BEL /\ OscBodyOk(Slice(s, p, j - 1))
    THEN j + 1 ELSE 0

\* Second alternative:
\*   (?:\d{1,4}(?:;\d{0,4})*)?[\dA-PR-TZcf-nq-uy=><~]
FinalAt(s, p) == IF p <= Len(s) /\ IsFinalChar(s[p]) THEN p + 1 ELSE 0

\* (?:;\d{0,4})* followed by the final character, greedy with backtracking:
\* one more iteration is tried first, with as many digits as possible.
RECURSIVE ParamsEnd(_, _)
RECURSIVE ParamsTry(_, _, _)
ParamsEnd(s, q) ==
    IF q <= Len(s) /\ s[q] = SEMI
    THEN LET r == ParamsTry(s, q, Min(4, DigitRun(s, q + 1)))
         IN IF r # 0 THEN r ELSE FinalAt(s, q)
    ELSE FinalAt(s, q)
ParamsTry(s, q, e) ==
    LET r == ParamsEnd(s, q + 1 + e) IN
    IF r # 0 THEN r
    ELSE IF e = 0 THEN 0 ELSE ParamsTry(s, q, e - 1)

RECURSIVE DigitsTry(_, _, _)
DigitsTry(s, p, d) ==
    IF d = 0 THEN 0
    ELSE LET r == ParamsEnd(s, p + d) IN
         IF r # 0 THEN r ELSE DigitsTry(s, p, d - 1)

Alt2End(s, p) ==
    LET r == DigitsTry(s, p, Min(4, DigitRun(s, p))) IN
    IF r # 0 THEN r ELSE FinalAt(s, p)

\* [[\]()#;?]* is greedy: the longest prefix run is tried first, and for
\* each length the first alternative before the second.
RECURSIVE PrefixTry(_, _, _)
PrefixTry(s, p, k) ==
    LET r1 == Alt1End(s, p + k)
        r2 == Alt2End(s, p + k)
    IN IF r1 # 0 THEN r1
       ELSE IF r2 # 0 THEN r2
       ELSE IF k = 0 THEN 0 ELSE PrefixTry(s, p, k - 1)

\* End of the match of ANSI_REGEX that starts at position i, or 0.
ANSI_REGEX_MatchAt(s, i) ==
    IF i <= Len(s) /\ IsIntroducer(s[i])
    THEN PrefixTry(s, i + 1, PrefixRun(s, i + 1))
    ELSE 0

\* RegExp.prototype.exec of a global regex: the first match at or after
\* lastIndex `from` (0-based).  Returns the new lastIndex: the 0-based end
\* of the match, or 0 with found = FALSE.
RECURSIVE ANSI_REGEX_Scan(_, _)
ANSI_REGEX_Scan(s, i) ==
    IF i > Len(s) THEN [found |-> FALSE, lastIndex |-> 0]
    ELSE IF ANSI_REGEX_MatchAt(s, i) # 0
         THEN [found |-> TRUE, lastIndex |-> ANSI_REGEX_MatchAt(s, i) - 1]
         ELSE ANSI_REGEX_Scan(s, i + 1)

ANSI_REGEX_test(s, from) ==
    IF from > Len(s) THEN [found |-> FALSE, lastIndex |-> 0]
    ELSE ANSI_REGEX_Scan(s, from + 1)

\* str.replace(ANSI_REGEX, ""): every match, left to right, is removed.
RECURSIVE ReplaceFrom(_, _)
ReplaceFrom(s, i) ==
    IF i > Len(s) THEN <<>>
    ELSE IF ANSI_REGEX_MatchAt(s, i) # 0
         THEN ReplaceFrom(s, ANSI_REGEX_MatchAt(s, i))
         ELSE <<s[i]>> \o ReplaceFrom(s, i + 1)

stripAnsi(str) == IF str = <<>> THEN str ELSE ReplaceFrom(str, 1)


\* replace() that leaves lastIndex where the last test() put it.
stripAnsiLastIndexKept(str, li) == li

\* The value of ANSI_REGEX.lastIndex after stripAnsi(str): replace() resets
\* it, and the early return for the empty string leaves it alone.
stripAnsiLastIndex(str, li) == IF str = <<>> THEN li ELSE 0

----------------------------------------------------------------------------
(* sanitizeForClipboard.                                                   *)

\* The character class without DEL.
IsDangerousControlNoDel(c) == c \in 0..8 \/ c \in {11, 12} \/ c \in 14..31

\* [\x00-\x08\x0B\x0C\x0E-\x1F\x7F]
IsDangerousControl(c) == c \in 0..8 \/ c \in {11, 12} \/ c \in 14..31 \/ c = 127

\* Number.prototype.toString(16): lower-case digits, no padding.
HexDigit(d) == IF d < 10 THEN 48 + d ELSE 97 + (d - 10)

RECURSIVE ToString16(_)
ToString16(n) ==
    IF n < 16 THEN <<HexDigit(n)>>
    ELSE ToString16(n \div 16) \o <<HexDigit(n % 16)>>

\* padStart(2, "0")
PadStart2(t) == IF Len(t) < 2 THEN <<48>> \o t ELSE t

\* toUpperCase on the hex digits
ToUpperCase(t) == [i \in 1..Len(t) |-> IF t[i] \in 97..122 THEN t[i] - 32 ELSE t[i]]

\* The replacer callback: `\\x${hex}`
HexEscape(char) == <<92, 120>> \o ToUpperCase(PadStart2(ToString16(char)))

RECURSIVE EscapeControls(_)
EscapeControls(t) ==
    IF t = <<>> THEN <<>>
    ELSE (IF IsDangerousControl(Head(t)) THEN HexEscape(Head(t)) ELSE <<Head(t)>>)
         \o EscapeControls(Tail(t))

sanitizeForClipboard(str) ==
    IF str = <<>> THEN str ELSE EscapeControls(stripAnsi(str))

----------------------------------------------------------------------------
(* createAnsiStripper: one call of the returned closure.                   *)

\* Math.max(buffer.lastIndexOf(ESC), buffer.lastIndexOf(CSI)), 0-based,
\* -1 when there is none.
RECURSIVE LastEscIndexFrom(_, _)
LastEscIndexFrom(s, i) ==
    IF i = 0 THEN -1
    ELSE IF IsIntroducer(s[i]) THEN i - 1 ELSE LastEscIndexFrom(s, i - 1)

LastEscIndex(s) == LastEscIndexFrom(s, Len(s))

\* The closure without `buffer = ""` on the path that saw no ESC.
createAnsiStripperKeepsBuffer(buf, li, chunk) ==
    LET b == buf \o chunk
        lastEscIndex == LastEscIndex(b)
        safePart == Slice(b, 1, lastEscIndex)
        remainder == Slice(b, lastEscIndex + 1, Len(b))
        t == ANSI_REGEX_test(remainder, li)
    IN IF lastEscIndex # -1
       THEN IF t.found
            THEN [out |-> stripAnsi(b), buffer |-> <<>>,
                  lastIndex |-> stripAnsiLastIndex(b, t.lastIndex)]
            ELSE [out |-> stripAnsi(safePart), buffer |-> remainder,
                  lastIndex |-> stripAnsiLastIndex(safePart, t.lastIndex)]
       ELSE [out |-> stripAnsi(b), buffer |-> b,
             lastIndex |-> stripAnsiLastIndex(b, li)]

\* The closure that keeps the whole buffer, not only the part from the
\* last introducer, while the sequence is incomplete.
createAnsiStripperKeepsAll(buf, li, chunk) ==
    LET b == buf \o chunk
        lastEscIndex == LastEscIndex(b)
        safePart == Slice(b, 1, lastEscIndex)
        remainder == Slice(b, lastEscIndex + 1, Len(b))
        t == ANSI_REGEX_test(remainder, li)
    IN IF lastEscIndex # -1
       THEN IF t.found
            THEN [out |-> stripAnsi(b), buffer |-> <<>>,
                  lastIndex |-> stripAnsiLastIndex(b, t.lastIndex)]
            ELSE [out |-> stripAnsi(safePart), buffer |-> b,
                  lastIndex |-> stripAnsiLastIndex(safePart, t.lastIndex)]
       ELSE [out |-> stripAnsi(b), buffer |-> <<>>,
             lastIndex |-> stripAnsiLastIndex(b, li)]

\* The closure applied to `chunk` with carry-over buffer `buf` and regex
\* state `li`: the returned text, the new buffer and the new lastIndex.
createAnsiStripper(buf, li, chunk) ==
    LET b == buf \o chunk
        lastEscIndex == LastEscIndex(b)
        safePart == Slice(b, 1, lastEscIndex)
        remainder == Slice(b, lastEscIndex + 1, Len(b))
        t == ANSI_REGEX_test(remainder, li)
    IN IF lastEscIndex # -1
       THEN IF t.found
            THEN [out |-> stripAnsi(b), buffer |-> <<>>,
                  lastIndex |-> stripAnsiLastIndex(b, t.lastIndex)]
            ELSE [out |-> stripAnsi(safePart), buffer |-> remainder,
                  lastIndex |-> stripAnsiLastIndex(safePart, t.lastIndex)]
       ELSE [out |-> stripAnsi(b), buffer |-> <<>>,
             lastIndex |-> stripAnsiLastIndex(b, li)]

----------------------------------------------------------------------------
(* The stream runner (runQuery of run.ts) called from main (cli.ts).       *)

EndsWithLF(s) == s # <<>> /\ s[Len(s)] = LF

\* The exit code a QError carries (errors.ts); the other QError classes
\* are usage and configuration errors.
QErrorExitCode(err) == IF err = "ProviderError" THEN 1 ELSE 2

IsQError(err) == err \in {"ProviderError", "UsageError"}

\* main's catch block: the exit code of a QError, 1 for anything else.
CatchExitCode(err) == IF IsQError(err) THEN QErrorExitCode(err) ELSE 1

Init ==
    /\ pc = "streaming"
    /\ chunks = <<>>
    /\ buffer = <<>>
    /\ lastIndex = 0
    /\ fullText = <<>>
    /\ stdout = <<>>
    /\ clipboard = <<>>
    /\ thrown = "none"
    /\ tools = [defined |-> FALSE, keys |-> {}]
    /\ steps = <<>>
    /\ query = <<>>
    /\ context = <<>>
    /\ userPrompt = <<>>
    /\ HostIdle
    /\ McpIdle
    /\ GenIdle

\* The loop body without the stripper: the fragment is written as it came.
StreamChunkUnsanitized(textPart) ==
    /\ pc = "streaming"
    /\ Len(fullText) + Len(textPart) <= MaxStream
    /\ stdout' = Append(stdout, textPart)
    /\ fullText' = fullText \o textPart
    /\ chunks' = Append(chunks, textPart)
    /\ UNCHANGED <<pc, buffer, lastIndex, clipboard, thrown, toolVars, promptVars, hostVars, mcpVars, genVars>>

\* for await (const textPart of result.textStream) { ... }: one iteration.
StreamChunk(textPart) ==
    /\ pc = "streaming"
    /\ Len(fullText) + Len(textPart) <= MaxStream
    /\ LET r == createAnsiStripper(buffer, lastIndex, textPart) IN
       /\ buffer' = r.buffer
       /\ lastIndex' = r.lastIndex
       /\ stdout' = Append(stdout, r.out)
    /\ fullText' = fullText \o textPart
    /\ chunks' = Append(chunks, textPart)
    /\ UNCHANGED <<pc, clipboard, thrown, toolVars, promptVars, hostVars, mcpVars, genVars>>

\* The stream ends: the trailing newline and the return.
StreamEnd ==
    /\ pc = "streaming"
    /\ stdout' = IF ~EndsWithLF(fullText) THEN Append(stdout, <<LF>>) ELSE stdout
    /\ pc' = "returned"
    /\ UNCHANGED <<streamVars, fullText, clipboard, thrown, toolVars, promptVars, hostVars, mcpVars, genVars>>

\* The catch block ends the line on stdout before it raises.
StreamFailWritesNewline ==
    /\ pc = "streaming"
    /\ thrown' = "ProviderError"
    /\ exitCode' = CatchExitCode(thrown')
    /\ stdout' = Append(stdout, <<LF>>)
    /\ pc' = "exit"
    /\ UNCHANGED <<streamVars, fullText, clipboard, toolVars, promptVars,
                   stderr, debug, mcpVars, genVars>>

\* The stream throws: the catch block raises a ProviderError, which main
\* reports before it exits.
StreamFail ==
    /\ pc = "streaming"
    /\ thrown' = "ProviderError"
    /\ exitCode' = CatchExitCode(thrown')
    /\ pc' = "exit"
    /\ UNCHANGED <<streamVars, fullText, stdout, clipboard, toolVars, promptVars,
                   stderr, debug, mcpVars, genVars>>

\* main after runQuery returned: shouldCopy is computed from the arguments
\* and the configuration, then the clipboard write and process.exit(0).
MainCopy(shouldCopy) ==
    /\ pc = "returned"
    /\ clipboard' = IF shouldCopy THEN Append(clipboard, fullText) ELSE clipboard
    /\ exitCode' = 0
    /\ pc' = "exit"
    /\ UNCHANGED <<streamVars, fullText, stdout, thrown, toolVars, promptVars,
                   stderr, debug, mcpVars, genVars>>

Next ==
    \/ \E textPart \in StringsUpTo(StreamAlphabet, MaxStream - Len(fullText)) \ {<<>>} :
          StreamChunk(textPart)
    \/ StreamEnd
    \/ StreamFail
    \/ \E shouldCopy \in BOOLEAN : MainCopy(shouldCopy)

Spec == Init /\ [][Next]_vars


----------------------------------------------------------------------------
(* Properties of the stream runner and of the stripper it drives.          *)

\* What the stripper returned for the fragments fed so far: the writes of
\* the loop, without the newline that StreamEnd may add.
StripperOutputs == SubSeq(stdout, 1, Len(chunks))

IsCompleteSequence(e) == e # <<>> /\ ANSI_REGEX_MatchAt(e, 1) = Len(e) + 1

HasIntroducer(t) == \E i \in 1..Len(t) : IsIntroducer(t[i])

RECURSIVE IsSubsequence(_, _)
IsSubsequence(a, b) ==
    IF a = <<>> THEN TRUE
    ELSE IF b = <<>> THEN FALSE
    ELSE IF Head(a) = Head(b) THEN IsSubsequence(Tail(a), Tail(b))
    ELSE IsSubsequence(a, Tail(b))

\* C1: for every string and every split of it into fragments, the
\* concatenation of the stripper's outputs for the fragments equals
\* stripAnsi of the whole string.
C1_StreamingBatchEquivalence ==
    Flatten(StripperOutputs) = stripAnsi(Flatten(chunks))

\* C2: a complete escape sequence split into two non-empty fragments is
\* fully removed once both are fed to a fresh stripper, and the output for
\* the first fragment holds no introducer.
C2_SplitSequenceRemoved ==
    (/\ Len(chunks) = 2
     /\ chunks[1] # <<>> /\ chunks[2] # <<>>
     /\ IsCompleteSequence(chunks[1] \o chunks[2]))
    => /\ Flatten(StripperOutputs) = <<>>
       /\ ~HasIntroducer(StripperOutputs[1])

\* C3: every value written to the clipboard is the Answer after
\* sanitizeForClipboard, never the raw Answer.
C3_ClipboardSanitized ==
    \A i \in 1..Len(clipboard) : clipboard[i] = sanitizeForClipboard(fullText)

\* The stripper's outputs for a fragment sequence fed to a fresh stripper.
RECURSIVE FeedAll(_, _, _)
FeedAll(frags, buf, li) ==
    IF frags = <<>> THEN <<>>
    ELSE LET r == createAnsiStripper(buf, li, Head(frags))
         IN <<r.out>> \o FeedAll(Tail(frags), r.buffer, r.lastIndex)

\* C5: when the stream completes, stdout holds, in arrival order, exactly
\* the stripper's output for each fragment (then at most the final line
\* terminator), and the Answer is the concatenation of the raw fragments.
C5_RunnerWritesSanitizedReturnsRaw ==
    pc = "returned" =>
       /\ StripperOutputs = FeedAll(chunks, <<>>, 0)
       /\ stdout \in {StripperOutputs, Append(StripperOutputs, <<LF>>)}
       /\ fullText = Flatten(chunks)

C5_Witness ==
    /\ pc = "returned"
    /\ Len(chunks) >= 2
    /\ HasIntroducer(fullText)
    /\ Flatten(StripperOutputs) # <<>>
    /\ Flatten(StripperOutputs) # fullText
    /\ Flatten(StripperOutputs) = stripAnsi(fullText)

\* C7: by the time the runner returns, every code unit of the stream that
\* is not part of a complete escape sequence has been written to stdout.
C7_FailOpenDelivery ==
    pc = "returned" =>
       IsSubsequence(stripAnsi(fullText), Flatten(StripperOutputs))

\* C15: when the stream fails after k fragments, one ProviderError is
\* raised and the exit code is 1, no Answer is returned, stdout holds the
\* stripper's output for the k fragments and nothing else, and the
\* clipboard is not written.
C15_StreamFailureKeepsOutput ==
    thrown # "none" =>
       /\ thrown = "ProviderError"
       /\ pc = "exit"
       /\ exitCode = 1
       /\ stdout = FeedAll(chunks, <<>>, 0)
       /\ clipboard = <<>>

C15_Witness ==
    /\ thrown = "ProviderError"
    /\ Len(chunks) = 2
    /\ HasIntroducer(chunks[1])
    /\ Flatten(stdout) # <<>>
    /\ Flatten(stdout) # Flatten(chunks)

\* C18: when the runner has returned, the text it wrote to stdout ends
\* with a line terminator.
C18_StdoutEndsWithNewline ==
    pc = "returned" => EndsWithLF(Flatten(stdout))

\* C19: a fragment without an introducer, fed to the stripper while its
\* buffer is empty, is returned unchanged and leaves the buffer empty,
\* and stripAnsi returns it unchanged too.
C19_NoIntroducerIdentity ==
    [][(/\ pc = "streaming"
        /\ buffer = <<>>
        /\ Len(chunks') = Len(chunks) + 1
        /\ ~HasIntroducer(chunks'[Len(chunks')]))
       => (/\ stdout'[Len(stdout')] = chunks'[Len(chunks')]
           /\ buffer' = <<>>
           /\ stripAnsi(chunks'[Len(chunks')]) = chunks'[Len(chunks')])]_vars

\* C23: after every feed the carry-over buffer is empty, or it starts
\* with an introducer, holds no second introducer and holds no complete
\* escape sequence.
C23_BufferHoldsOnePrefix ==
    buffer # <<>> =>
       /\ IsIntroducer(buffer[1])
       /\ \A i \in 2..Len(buffer) : ~IsIntroducer(buffer[i])
       /\ ~ANSI_REGEX_test(buffer, 0).found

C23_Witness ==
    /\ Len(chunks) = 2
    /\ HasIntroducer(chunks[1])
    /\ buffer = <<ESC, 91>>
    /\ Len(Flatten(stdout)) = 2

\* Some text makes the candidate a complete escape sequence.
CanComplete(b) ==
    \E e \in StringsUpTo(StreamAlphabet, 2) \ {<<>>} : IsCompleteSequence(b \o e)

\* C24: after every feed the retained buffer is a proper prefix of some
\* complete escape sequence: a candidate that nothing can complete is not
\* retained.
C24_BufferIsCompletablePrefix ==
    buffer # <<>> => CanComplete(buffer)

C19_Witness ==
    /\ pc = "streaming"
    /\ Len(chunks) = 2
    /\ IsCompleteSequence(chunks[1])
    /\ chunks[2] = <<109, LF>>
    /\ stdout[2] = chunks[2]
    /\ buffer = <<>>


----------------------------------------------------------------------------
(* The module of the tool orchestrator (output.ts): runQuery,              *)
(* runWithStreaming and runWithTools.                                      *)

\* A budget of one step more.
MutantToolSteps == 5 + 1

MAX_TOOL_STEPS == 5

\* The texts a model step or a stream fragment may carry: empty, 'm',
\* ESC 'm' (a complete escape sequence) and 'm' LF.
ModelTexts == {<<>>, <<109>>, <<ESC, 109>>, <<109, LF>>}

ToolSets == {[defined |-> FALSE, keys |-> {}],
             [defined |-> TRUE, keys |-> {}],
             [defined |-> TRUE, keys |-> {"srv.tool"}]}

InitTools ==
    /\ pc = "runQuery"
    /\ tools \in ToolSets
    /\ steps = <<>>
    /\ chunks = <<>>
    /\ buffer = <<>>
    /\ lastIndex = 0
    /\ fullText = <<>>
    /\ stdout = <<>>
    /\ clipboard = <<>>
    /\ thrown = "none"
    /\ query = <<>>
    /\ context = <<>>
    /\ userPrompt = <<>>
    /\ exitCode = -1
    /\ stderr = <<>>
    /\ debug \in BOOLEAN
    /\ McpIdle
    /\ GenIdle

\* if (!tools || Object.keys(tools).length === 0): the function runQuery
\* hands the options to.
runQueryMode(t) ==
    IF ~t.defined \/ Cardinality(t.keys) = 0
    THEN "runWithStreaming" ELSE "runWithTools"

\* The generation call each function makes.
GenerationCall(mode) ==
    IF mode = "runWithStreaming" THEN "streamText" ELSE "generateText"

\* runQuery that tests only whether a tool set was passed.
runQueryToolsWhenDefined ==
    /\ pc = "runQuery"
    /\ pc' = IF ~tools.defined THEN "runWithStreaming" ELSE "runWithTools"
    /\ requests' = Append(requests, GenerationCall(pc'))
    /\ UNCHANGED <<streamVars, fullText, stdout, clipboard, thrown, toolVars,
                   promptVars, hostVars, mcpVars, strippers>>

\* runQuery: the mode is chosen from the tool set, and the function it
\* hands the options to makes its generation call.
runQuery ==
    /\ pc = "runQuery"
    /\ pc' = runQueryMode(tools)
    /\ requests' = Append(requests, GenerationCall(pc'))
    /\ UNCHANGED <<streamVars, fullText, stdout, clipboard, thrown, toolVars,
                   promptVars, hostVars, mcpVars, strippers>>

\* runWithStreaming: one iteration of the for-await loop.
runWithStreamingChunk(textPart) ==
    /\ pc = "runWithStreaming"
    /\ Len(fullText) + Len(textPart) <= MaxStream
    /\ stdout' = Append(stdout, textPart)
    /\ fullText' = fullText \o textPart
    /\ chunks' = Append(chunks, textPart)
    /\ UNCHANGED <<pc, buffer, lastIndex, clipboard, thrown, toolVars, promptVars, hostVars, mcpVars, genVars>>

\* runWithStreaming: the stream ends.
runWithStreamingEnd ==
    /\ pc = "runWithStreaming"
    /\ stdout' = IF ~EndsWithLF(fullText) THEN Append(stdout, <<LF>>) ELSE stdout
    /\ pc' = "returned"
    /\ UNCHANGED <<streamVars, fullText, clipboard, thrown, toolVars, promptVars, hostVars, mcpVars, genVars>>

\* The tool calls a step can make, each by whether its execution
\* succeeded: none, one that succeeds, one that fails, or a failing one
\* and a succeeding one.
ToolCallResults == {<<>>, <<TRUE>>, <<FALSE>>, <<FALSE, TRUE>>}

MAX_DEBUG_OUTPUT_LENGTH == 500

\* "... (truncated)"
TruncationMarker ==
    <<46, 46, 46, 32, 40, 116, 114, 117, 110, 99, 97, 116, 101, 100, 41>>

\* "{}": the payload of the calls of a model step.
EmptyObject == <<123, 125>>

\* A write of a tool event: what it is, the tool, and the payload it
\* carries (<<>> for an indicator).
toolWrite(text, subject, payload) ==
    [kind |-> "tool", text |-> text, subject |-> subject, payload |-> payload]

\* experimental_onToolCallStart: the progress indicator and, in debug
\* mode, a line break and the input (safeStringify gives its string).
onToolCallStart(log, toolName, input, dbg) ==
    log \o <<toolWrite("start", toolName, <<>>)>>
        \o (IF dbg THEN <<toolWrite("newline", toolName, <<>>),
                         toolWrite("[mcp] Input", toolName, input)>>
            ELSE <<>>)

\* The finish handler that writes the output as it is.
onToolCallFinishUntruncated(log, toolName, success, payload, dbg) ==
    IF ~success
    THEN log \o <<toolWrite("Failed", toolName, <<>>)>>
             \o (IF dbg THEN <<toolWrite("[mcp] Error", toolName, payload)>>
                 ELSE <<>>)
    ELSE log \o <<toolWrite("finished", toolName, <<>>)>>
             \o (IF dbg THEN <<toolWrite("[mcp] Output", toolName, payload)>>
                 ELSE <<>>)

\* experimental_onToolCallFinish: the failure indicator or the completion
\* indicator and, in debug mode, the error, or the output cut to
\* MAX_DEBUG_OUTPUT_LENGTH characters and marked when it was longer.
onToolCallFinish(log, toolName, success, payload, dbg) ==
    IF ~success
    THEN log \o <<toolWrite("Failed", toolName, <<>>)>>
             \o (IF dbg THEN <<toolWrite("[mcp] Error", toolName, payload)>>
                 ELSE <<>>)
    ELSE log \o <<toolWrite("finished", toolName, <<>>)>>
             \o (IF dbg
                 THEN LET truncated ==
                          IF Len(payload) > MAX_DEBUG_OUTPUT_LENGTH
                          THEN SubSeq(payload, 1, MAX_DEBUG_OUTPUT_LENGTH)
                                  \o TruncationMarker
                          ELSE payload
                      IN <<toolWrite("[mcp] Output", toolName, truncated)>>
                 ELSE <<>>)

\* The events of the tool calls of one step, in the order of the calls.
RECURSIVE ToolCallEvents(_, _, _, _)
ToolCallEvents(log, toolName, results, dbg) ==
    IF results = <<>> THEN log
    ELSE ToolCallEvents(onToolCallFinish(
                            onToolCallStart(log, toolName, EmptyObject, dbg),
                            toolName, Head(results), EmptyObject, dbg),
                        toolName, Tail(results), dbg)

\* The step with a finish handler that writes its indicator to stdout.
runWithToolsStepIndicatorOnStdout(text, results) ==
    /\ pc = "runWithTools"
    /\ steps' = Append(steps, [text |-> text, toolCalls |-> results # <<>>,
                               results |-> results])
    /\ stderr' = ToolCallEvents(stderr, CHOOSE k \in tools.keys : TRUE, results, debug)
    /\ stdout' = (IF results # <<>> THEN Append(stdout, <<13, 10003>>) ELSE stdout)
                    \o (IF text # <<>> THEN <<text>> ELSE <<>>)
    /\ pc' = IF results # <<>> /\ Len(steps') # MAX_TOOL_STEPS
             THEN "runWithTools" ELSE "generated"
    /\ UNCHANGED <<streamVars, fullText, clipboard, thrown, tools, promptVars,
                   exitCode, debug, mcpVars, genVars>>

\* The step in which a failed tool call rejects generateText, so that the
\* catch block raises a ProviderError.
runWithToolsStepAbortOnFailure(text, results) ==
    /\ pc = "runWithTools"
    /\ steps' = Append(steps, [text |-> text, toolCalls |-> results # <<>>,
                               results |-> results])
    /\ stderr' = ToolCallEvents(stderr, CHOOSE k \in tools.keys : TRUE, results, debug)
    /\ IF \E i \in DOMAIN results : ~results[i]
       THEN /\ thrown' = "ProviderError"
            /\ pc' = "exit"
            /\ UNCHANGED stdout
       ELSE /\ stdout' = IF text # <<>> THEN Append(stdout, text) ELSE stdout
            /\ pc' = IF results # <<>> /\ Len(steps') # MAX_TOOL_STEPS
                     THEN "runWithTools" ELSE "generated"
            /\ UNCHANGED thrown
    /\ UNCHANGED <<streamVars, fullText, clipboard, tools, promptVars,
                   exitCode, debug, mcpVars, genVars>>

\* generateText with stopWhen: stepCountIs(MAX_TOOL_STEPS): one model step.
\* The loop itself is the AI SDK's: it runs the tool calls of the step,
\* hands each result, failed or not, back to the model, and goes on while
\* the step requested tool calls and the stop condition
\* (steps.length === MAX_TOOL_STEPS) does not hold.  The handlers run for
\* each tool call, and onStepFinish writes the step's text.
runWithToolsStep(text, results) ==
    /\ pc = "runWithTools"
    /\ steps' = Append(steps, [text |-> text, toolCalls |-> results # <<>>,
                               results |-> results])
    /\ stderr' = ToolCallEvents(stderr, CHOOSE k \in tools.keys : TRUE, results, debug)
    /\ stdout' = IF text # <<>> THEN Append(stdout, text) ELSE stdout
    /\ pc' = IF results # <<>> /\ Len(steps') # MAX_TOOL_STEPS
             THEN "runWithTools" ELSE "generated"
    /\ UNCHANGED <<streamVars, fullText, clipboard, thrown, tools, promptVars,
                   exitCode, debug, mcpVars, genVars>>

\* runWithTools after generateText resolved: result.text is the text of the
\* last step.
runWithToolsReturn ==
    /\ pc = "generated"
    /\ fullText' = steps[Len(steps)].text
    /\ stdout' = IF fullText' # <<>> /\ ~EndsWithLF(fullText')
                 THEN Append(stdout, <<LF>>) ELSE stdout
    /\ pc' = "returned"
    /\ UNCHANGED <<streamVars, clipboard, thrown, toolVars, promptVars, hostVars, mcpVars, genVars>>

\* The generation request fails: both paths raise a ProviderError.
runQueryFail ==
    /\ pc \in {"runWithStreaming", "runWithTools"}
    /\ thrown' = "ProviderError"
    /\ pc' = "exit"
    /\ UNCHANGED <<streamVars, fullText, stdout, clipboard, toolVars, promptVars, hostVars, mcpVars, genVars>>

NextTools ==
    \/ runQuery
    \/ \E textPart \in ModelTexts \ {<<>>} : runWithStreamingChunk(textPart)
    \/ runWithStreamingEnd
    \/ \E text \in ModelTexts, results \in ToolCallResults : runWithToolsStep(text, results)
    \/ runWithToolsReturn
    \/ runQueryFail

SpecTools == InitTools /\ [][NextTools]_vars

\* The model answers or fails every generation request.
FairSpecTools == SpecTools /\ WF_vars(NextTools)

\* C4: every text written to stdout by runWithTools and runWithStreaming
\* went through the sanitizer: no write holds a complete escape sequence.
C4_ToolModuleStdoutSanitized ==
    \A i \in 1..Len(stdout) : ~ANSI_REGEX_test(stdout[i], 0).found

\* The executed steps are min(5, first step without a tool call): every
\* step but the last requested a tool call, and the last one did not unless
\* it is the fifth.
C6_StepCount ==
    /\ Len(steps) <= 5
    /\ (pc \in {"generated", "returned"} /\ tools.keys # {}) =>
          /\ Len(steps) >= 1
          /\ \A i \in 1..(Len(steps) - 1) : steps[i].toolCalls
          /\ Len(steps) < 5 => ~steps[Len(steps)].toolCalls

\* C6: tool orchestration always terminates, after min(5, index of the
\* first step without a tool call) steps; there is never a sixth step.
C6_ToolStepsBounded == [](C6_StepCount) /\ <>(pc \in {"returned", "exit"})

C6_Witness ==
    /\ pc = "returned"
    /\ Len(steps) = 5
    /\ steps[5].toolCalls

\* The tool calls of a step that failed.
FailedCalls(step) == {i \in DOMAIN step.results : ~step.results[i]}

\* The writes of a log with one of the given texts.
WritesOf(log, texts) == {k \in DOMAIN log : log[k].text \in texts}

\* C16: a step with a failed tool call raises no error, puts one failure
\* indicator per failed call on stderr, reports the call as failed in the
\* step's results, and is followed by another model step unless it was
\* the last step of the budget.
C16_ToolFailureDoesNotAbort ==
    [][(/\ pc = "runWithTools"
        /\ Len(steps') = Len(steps) + 1
        /\ FailedCalls(steps'[Len(steps')]) # {})
       => (/\ thrown' = "none"
           /\ Cardinality(WritesOf(stderr', {"Failed"}))
                 = Cardinality(WritesOf(stderr, {"Failed"}))
                   + Cardinality(FailedCalls(steps'[Len(steps')]))
           /\ steps'[Len(steps')].toolCalls
           /\ Len(steps') < MAX_TOOL_STEPS => pc' = "runWithTools"
           /\ Len(steps') = MAX_TOOL_STEPS => pc' = "generated")]_vars

C16_Witness ==
    /\ pc = "returned"
    /\ thrown = "none"
    /\ Len(steps) = 3
    /\ steps[1].results = <<FALSE>>
    /\ steps[2].results = <<FALSE, TRUE>>
    /\ Cardinality(WritesOf(stderr, {"Failed"})) = 2

\* C27: in the tool path, when the run has returned, stdout is the Answer
\* plus at most a final line terminator, and it ends with a line
\* terminator whenever any text was written.
C27_AnswerMatchesStdout ==
    (pc = "returned" /\ tools.defined /\ tools.keys # {}) =>
       /\ Flatten(stdout) \in {fullText, fullText \o <<LF>>}
       /\ Flatten(stdout) # <<>> => EndsWithLF(Flatten(stdout))

\* C28: the function runQuery runs is decided by the tool set alone:
\* with no tool the streaming loop and never a tool step, with a tool the
\* tool steps and never the streaming loop; and once it has dispatched,
\* exactly one generation call (streamText or generateText) was made.
C28_ModeFromToolSet ==
    /\ pc # "runQuery" =>
          /\ Len(requests) = 1
          /\ requests[1] = (IF tools.defined /\ tools.keys # {}
                            THEN "generateText" ELSE "streamText")
    /\ pc = "runQuery" => requests = <<>>
    /\ (~tools.defined \/ tools.keys = {}) =>
          /\ steps = <<>>
          /\ pc \notin {"runWithTools", "generated"}
    /\ (tools.defined /\ tools.keys # {}) =>
          /\ chunks = <<>>
          /\ pc # "runWithStreaming"

C28_Witness ==
    /\ pc = "returned"
    /\ tools.defined
    /\ tools.keys = {}
    /\ Len(chunks) = 2
    /\ requests = <<"streamText">>

\* The texts onStepFinish wrote: the non-empty texts of the steps.
RECURSIVE StepTexts(_)
StepTexts(ss) ==
    IF ss = <<>> THEN <<>>
    ELSE StepTexts(SubSeq(ss, 1, Len(ss) - 1))
            \o (IF ss[Len(ss)].text # <<>> THEN <<ss[Len(ss)].text>> ELSE <<>>)

RECURSIVE ToolCallCount(_)
ToolCallCount(ss) ==
    IF ss = <<>> THEN 0
    ELSE ToolCallCount(SubSeq(ss, 1, Len(ss) - 1)) + Len(ss[Len(ss)].results)

\* C17: in tool orchestration stdout holds the texts of the steps and,
\* once the run has returned, at most the final line terminator; every
\* tool call left its start and finish indicators on stderr, and its
\* debug payloads there and only in debug mode.
C17_ToolEventsOnStderrOnly ==
    (tools.defined /\ tools.keys # {}) =>
       /\ stdout \in {StepTexts(steps), Append(StepTexts(steps), <<LF>>)}
       /\ stdout # StepTexts(steps) => pc = "returned"
       /\ Cardinality(WritesOf(stderr, {"start"})) = ToolCallCount(steps)
       /\ Cardinality(WritesOf(stderr, {"Failed", "finished"})) = ToolCallCount(steps)
       /\ Cardinality(WritesOf(stderr, {"[mcp] Input"}))
             = (IF debug THEN ToolCallCount(steps) ELSE 0)
       /\ Cardinality(WritesOf(stderr, {"[mcp] Error", "[mcp] Output"}))
             = (IF debug THEN ToolCallCount(steps) ELSE 0)

C17_Witness ==
    /\ pc = "returned"
    /\ debug
    /\ Len(steps) = 2
    /\ steps[1].results = <<FALSE, TRUE>>
    /\ stdout = <<<<109>>, <<109>>, <<LF>>>>
    /\ Len(stderr) = 10


----------------------------------------------------------------------------
(* The debug payloads of one tool call (the handlers of runWithTools).     *)

MaxExcess == 1

\* The lengths of the payloads: empty, short, and around the limit.
PayloadLengths ==
    {0, 1} \cup {MAX_DEBUG_OUTPUT_LENGTH + d : d \in (0 - 1)..MaxExcess}

\* A payload of n characters ('x').
Payload(n) == [i \in 1..n |-> 120]

InitDebug ==
    /\ pc = "onToolCallStart"
    /\ debug \in BOOLEAN
    /\ tools = [defined |-> TRUE, keys |-> {"srv.tool"}]
    /\ chunks = <<>>
    /\ buffer = <<>>
    /\ lastIndex = 0
    /\ fullText = <<>>
    /\ stdout = <<>>
    /\ clipboard = <<>>
    /\ thrown = "none"
    /\ steps = <<>>
    /\ query = <<>>
    /\ context = <<>>
    /\ userPrompt = <<>>
    /\ exitCode = -1
    /\ stderr = <<>>
    /\ McpIdle
    /\ GenIdle

\* The tool call starts: the step records the call and its input.
ToolCallStart(input) ==
    /\ pc = "onToolCallStart"
    /\ stderr' = onToolCallStart(stderr, "srv.tool", input, debug)
    /\ steps' = <<[input |-> input]>>
    /\ pc' = "onToolCallFinish"
    /\ UNCHANGED <<streamVars, fullText, stdout, clipboard, thrown, tools,
                   promptVars, exitCode, debug, mcpVars, genVars>>

\* The tool call finishes with an output or with an error.
ToolCallFinish(success, payload) ==
    /\ pc = "onToolCallFinish"
    /\ stderr' = onToolCallFinish(stderr, "srv.tool", success, payload, debug)
    /\ steps' = <<[input |-> steps[1].input, success |-> success,
                   payload |-> payload]>>
    /\ pc' = "done"
    /\ UNCHANGED <<streamVars, fullText, stdout, clipboard, thrown, tools,
                   promptVars, exitCode, debug, mcpVars, genVars>>

NextDebug ==
    \/ \E n \in PayloadLengths : ToolCallStart(Payload(n))
    \/ \E success \in BOOLEAN, n \in PayloadLengths : ToolCallFinish(success, Payload(n))

SpecDebug == InitDebug /\ [][NextDebug]_vars

\* The payload of the write with the given text (<<>> when there is none).
PayloadWritten(text) ==
    IF WritesOf(stderr, {text}) = {} THEN <<>>
    ELSE stderr[CHOOSE k \in WritesOf(stderr, {text}) : TRUE].payload

\* At most MAX_DEBUG_OUTPUT_LENGTH characters of the payload, and the
\* truncation marker after them when the payload was longer.
IsTruncationOf(written, payload) ==
    IF Len(payload) > MAX_DEBUG_OUTPUT_LENGTH
    THEN written = SubSeq(payload, 1, MAX_DEBUG_OUTPUT_LENGTH) \o TruncationMarker
    ELSE written = payload

\* C26 as stated: in debug mode the input and the output written to
\* stderr are both truncated.
C26_DebugPayloadsTruncated ==
    (pc = "done" /\ debug) =>
       /\ IsTruncationOf(PayloadWritten("[mcp] Input"), steps[1].input)
       /\ steps[1].success =>
             IsTruncationOf(PayloadWritten("[mcp] Output"), steps[1].payload)

\* C26, amended: in debug mode the output written to stderr is truncated,
\* and the input is written in full.
C26_DebugOutputTruncated ==
    (pc = "done" /\ debug) =>
       /\ PayloadWritten("[mcp] Input") = steps[1].input
       /\ steps[1].success =>
             IsTruncationOf(PayloadWritten("[mcp] Output"), steps[1].payload)

C26_Witness ==
    /\ pc = "done"
    /\ debug
    /\ steps[1].success
    /\ Len(steps[1].input) = MAX_DEBUG_OUTPUT_LENGTH + 1
    /\ Len(steps[1].payload) = MAX_DEBUG_OUTPUT_LENGTH + 1
    /\ Len(PayloadWritten("[mcp] Output"))
          = MAX_DEBUG_OUTPUT_LENGTH + Len(TruncationMarker)

----------------------------------------------------------------------------
(* sanitizeForClipboard applied to an Answer.                              *)

MaxAnswer == 3

\* NUL, BS, TAB, LF, VT, CR, ESC, US, space, 'm', DEL and CSI.
ClipAlphabet == {0, 8, 9, 10, 11, 13, ESC, 31, 32, 109, 127, CSI}

InitClip ==
    /\ pc = "sanitizeForClipboard"
    /\ fullText \in StringsUpTo(ClipAlphabet, MaxAnswer)
    /\ clipboard = <<>>
    /\ chunks = <<>>
    /\ buffer = <<>>
    /\ lastIndex = 0
    /\ stdout = <<>>
    /\ thrown = "none"
    /\ tools = [defined |-> FALSE, keys |-> {}]
    /\ steps = <<>>
    /\ query = <<>>
    /\ context = <<>>
    /\ userPrompt = <<>>
    /\ HostIdle
    /\ McpIdle
    /\ GenIdle

\* The sanitized Answer is what a caller would hand to the clipboard.
SanitizeAnswer ==
    /\ pc = "sanitizeForClipboard"
    /\ clipboard' = <<sanitizeForClipboard(fullText)>>
    /\ pc' = "done"
    /\ UNCHANGED <<streamVars, fullText, stdout, thrown, toolVars, promptVars, hostVars, mcpVars, genVars>>

NextClip == SanitizeAnswer

SpecClip == InitClip /\ [][NextClip]_vars

\* "0123456789ABCDEF"
UpperHexDigits == <<48, 49, 50, 51, 52, 53, 54, 55, 56, 57, 65, 66, 67, 68, 69, 70>>

\* What the claim expects for one character left after stripping.
C8_Expected(c) ==
    IF (c \in 0..31 /\ c \notin {9, 10, 13}) \/ c = 127
    THEN <<92, 120, UpperHexDigits[(c \div 16) + 1], UpperHexDigits[(c % 16) + 1]>>
    ELSE <<c>>

\* C8: the output of sanitizeForClipboard holds no C0 control character but
\* tab, LF and CR, and no DEL: each one left after stripping has become
\* backslash, 'x' and its two upper-case hex digits; every other character
\* is passed through, in order.
C8_ClipboardControlsEscaped ==
    pc = "done" =>
       LET out == clipboard[1]
           stripped == stripAnsi(fullText)
       IN /\ \A i \in 1..Len(out) :
                ~((out[i] \in 0..31 /\ out[i] \notin {9, 10, 13}) \/ out[i] = 127)
          /\ out = Flatten([i \in 1..Len(stripped) |-> C8_Expected(stripped[i])])

C8_Witness ==
    /\ pc = "done"
    /\ \E i, j, k \in 1..Len(fullText) :
          /\ fullText[i] = 127
          /\ fullText[j] = 9
          /\ fullText[k] = CSI
    /\ Len(clipboard[1]) = Len(fullText) + 3

----------------------------------------------------------------------------
(* buildUserPrompt.                                                        *)

MaxPieces == 4

\* "</context>" and its replacement "<\/context>"
ClosingTag == <<60, 47, 99, 111, 110, 116, 101, 120, 116, 62>>
EscapedClosingTag == <<60, 92, 47, 99, 111, 110, 116, 101, 120, 116, 62>>

\* "<context>\n", "\n</context>\n\nQuestion: "
PromptHead == <<60, 99, 111, 110, 116, 101, 120, 116, 62, 10>>
PromptTail == <<10>> \o ClosingTag
              \o <<10, 10, 81, 117, 101, 115, 116, 105, 111, 110, 58, 32>>

\* Canonicalize of a case-insensitive, non-unicode regex: toUpperCase.
Canonicalize(c) == IF c \in 97..122 THEN c - 32 ELSE c

\* The pattern matches at position i of s, ignoring case.
MatchesIgnoreCase(s, i, pat) ==
    /\ i + Len(pat) - 1 <= Len(s)
    /\ \A k \in 1..Len(pat) : Canonicalize(s[i + k - 1]) = Canonicalize(pat[k])

\* The pattern matches at position i of s exactly.
MatchesExactly(s, i, pat) ==
    /\ i + Len(pat) - 1 <= Len(s)
    /\ \A k \in 1..Len(pat) : s[i + k - 1] = pat[k]

\* The replacement without the i flag.
RECURSIVE ReplaceClosingTagCaseSensitive(_, _)
ReplaceClosingTagCaseSensitive(s, i) ==
    IF i > Len(s) THEN <<>>
    ELSE IF MatchesExactly(s, i, ClosingTag)
         THEN EscapedClosingTag \o ReplaceClosingTagCaseSensitive(s, i + Len(ClosingTag))
         ELSE <<s[i]>> \o ReplaceClosingTagCaseSensitive(s, i + 1)

\* context.replace(/<\/context>/gi, "<\\/context>"), from position i.
RECURSIVE ReplaceClosingTag(_, _)
ReplaceClosingTag(s, i) ==
    IF i > Len(s) THEN <<>>
    ELSE IF MatchesIgnoreCase(s, i, ClosingTag)
         THEN EscapedClosingTag \o ReplaceClosingTag(s, i + Len(ClosingTag))
         ELSE <<s[i]>> \o ReplaceClosingTag(s, i + 1)

\* A falsy context (null, undefined, "") is the empty sequence.
buildUserPrompt(q, c) ==
    IF c = <<>> THEN q
    ELSE PromptHead \o ReplaceClosingTag(c, 1) \o PromptTail \o q

\* The contexts are built of the pieces "<", "/", "\", "context>",
\* "CONTEXT>" and "</context>".
ContextPieces == {<<60>>, <<47>>, <<92>>,
                  <<99, 111, 110, 116, 101, 120, 116, 62>>,
                  <<67, 79, 78, 84, 69, 88, 84, 62>>,
                  ClosingTag}

Contexts == {Flatten(ps) : ps \in StringsUpTo(ContextPieces, MaxPieces)}

\* "q" and "</context>"
Queries == {<<113>>, ClosingTag}

InitPrompt ==
    /\ pc = "buildUserPrompt"
    /\ query \in Queries
    /\ context \in Contexts
    /\ userPrompt = <<>>
    /\ HostIdle
    /\ McpIdle
    /\ GenIdle
    /\ fullText = <<>>
    /\ clipboard = <<>>
    /\ chunks = <<>>
    /\ buffer = <<>>
    /\ lastIndex = 0
    /\ stdout = <<>>
    /\ thrown = "none"
    /\ tools = [defined |-> FALSE, keys |-> {}]
    /\ steps = <<>>

BuildUserPrompt ==
    /\ pc = "buildUserPrompt"
    /\ userPrompt' = buildUserPrompt(query, context)
    /\ pc' = "done"
    /\ UNCHANGED <<streamVars, fullText, stdout, clipboard, thrown, toolVars,
                   query, context, hostVars, mcpVars, genVars>>

NextPrompt == BuildUserPrompt

SpecPrompt == InitPrompt /\ [][NextPrompt]_vars

\* Positions of s at which "</context>" occurs, in any letter case.
ClosingTagOccurrences(s) ==
    {i \in 1..Len(s) : MatchesIgnoreCase(s, i, ClosingTag)}

\* Where the real closing marker starts: it is followed by
\* "\n\nQuestion: " and the query, which end the prompt.
RealClosingTagAt == Len(userPrompt) - Len(query) - Len(PromptTail) + 2

\* C9: with a non-empty context, nothing before the real closing marker
\* reads "</context>" in any letter case: the real marker is the first
\* occurrence in the prompt.
C9_OnlyRealClosingMarker ==
    (pc = "done" /\ context # <<>>) =>
       /\ RealClosingTagAt \in ClosingTagOccurrences(userPrompt)
       /\ \A i \in ClosingTagOccurrences(userPrompt) : i >= RealClosingTagAt

C9_Witness ==
    /\ pc = "done"
    /\ \E i, j \in ClosingTagOccurrences(context) :
          /\ j = i + Len(ClosingTag)
          /\ context[i + 1 + 1] = 67
          /\ context[j + 1 + 1] = 99

\* C10: for a fixed query the prompt determines the context: no other
\* non-empty context gives the same prompt.
C10_ContextRecoverable ==
    (pc = "done" /\ context # <<>>) =>
       \A other \in Contexts \ {<<>>, context} :
          buildUserPrompt(query, other) # userPrompt

----------------------------------------------------------------------------
(* stripAnsi applied to a string, and again to its own result.             *)

MaxStrip == 4

InitStrip ==
    /\ pc = "stripAnsi"
    /\ fullText \in StringsUpTo(StreamAlphabet, MaxStrip)
    /\ chunks = <<>>
    /\ buffer = <<>>
    /\ lastIndex = 0
    /\ stdout = <<>>
    /\ clipboard = <<>>
    /\ thrown = "none"
    /\ tools = [defined |-> FALSE, keys |-> {}]
    /\ steps = <<>>
    /\ query = <<>>
    /\ context = <<>>
    /\ userPrompt = <<>>
    /\ HostIdle
    /\ McpIdle
    /\ GenIdle

\* stripAnsi(S): the result is kept as the first entry of stdout.
StripOnce ==
    /\ pc = "stripAnsi"
    /\ stdout' = <<stripAnsi(fullText)>>
    /\ lastIndex' = stripAnsiLastIndex(fullText, lastIndex)
    /\ pc' = "stripAgain"
    /\ UNCHANGED <<chunks, buffer, fullText, clipboard, thrown, toolVars,
                   promptVars, hostVars, mcpVars, genVars>>

\* stripAnsi(stripAnsi(S)): the second entry.
StripAgain ==
    /\ pc = "stripAgain"
    /\ stdout' = Append(stdout, stripAnsi(stdout[1]))
    /\ lastIndex' = stripAnsiLastIndex(stdout[1], lastIndex)
    /\ pc' = "done"
    /\ UNCHANGED <<chunks, buffer, fullText, clipboard, thrown, toolVars,
                   promptVars, hostVars, mcpVars, genVars>>

NextStrip ==
    \/ StripOnce
    \/ StripAgain

SpecStrip == InitStrip /\ [][NextStrip]_vars

\* C25: stripAnsi(S) holds no complete escape sequence, so stripping it
\* again changes nothing.
C25_StripAnsiIdempotent ==
    pc = "done" =>
       /\ ~ANSI_REGEX_test(stdout[1], 0).found
       /\ stdout[2] = stdout[1]

----------------------------------------------------------------------------
(* Two strippers of createAnsiStripper fed in turn.  Each closure owns its *)
(* buffer; ANSI_REGEX, with its lastIndex, is the one object of the module.*)

MaxPair == 4

PairAlphabet == {ESC, 91, 51, 109}

PairChunks == StringsUpTo(PairAlphabet, 2) \ {<<>>}

\* The code units fed to all strippers so far.
RECURSIVE FedLength(_)
FedLength(fed) ==
    IF fed = <<>> THEN 0 ELSE Len(Head(fed).chunk) + FedLength(Tail(fed))

TotalFed == LET RECURSIVE Sum(_)
                Sum(i) == IF i = 0 THEN 0
                          ELSE FedLength(strippers[i].fed) + Sum(i - 1)
            IN Sum(Len(strippers))

FeedCount == LET RECURSIVE Sum(_)
                 Sum(i) == IF i = 0 THEN 0
                           ELSE Len(strippers[i].fed) + Sum(i - 1)
             IN Sum(Len(strippers))

InitPair ==
    /\ pc = "strippers"
    /\ chunks = <<>>
    /\ buffer = <<>>
    /\ lastIndex = 0
    /\ fullText = <<>>
    /\ stdout = <<>>
    /\ clipboard = <<>>
    /\ thrown = "none"
    /\ tools = [defined |-> FALSE, keys |-> {}]
    /\ steps = <<>>
    /\ query = <<>>
    /\ context = <<>>
    /\ userPrompt = <<>>
    /\ HostIdle
    /\ McpIdle
    /\ GenIdle

\* createAnsiStripper(): a new closure with `let buffer = ""`.
CreateStripper ==
    /\ pc = "strippers"
    /\ Len(strippers) < 2
    /\ strippers' = Append(strippers, [buffer |-> <<>>, fed |-> <<>>, out |-> <<>>])
    /\ UNCHANGED <<pc, streamVars, fullText, stdout, clipboard, thrown, toolVars,
                   promptVars, hostVars, mcpVars, requests>>

\* One call of the closure `id` with `chunk`; `at` is the position of the
\* call among all the calls made.
FeedStripper(id, chunk) ==
    /\ pc = "strippers"
    /\ id \in 1..Len(strippers)
    /\ TotalFed + Len(chunk) <= MaxPair
    /\ LET st == strippers[id]
           r == createAnsiStripper(st.buffer, lastIndex, chunk)
       IN /\ strippers' = [strippers EXCEPT ![id] =
                 [buffer |-> r.buffer,
                  fed |-> Append(st.fed, [chunk |-> chunk, at |-> FeedCount + 1]),
                  out |-> Append(st.out, r.out)]]
          /\ lastIndex' = r.lastIndex
    /\ UNCHANGED <<pc, chunks, buffer, fullText, stdout, clipboard, thrown,
                   toolVars, promptVars, hostVars, mcpVars, requests>>

NextPair ==
    \/ CreateStripper
    \/ \E id \in 1..2, chunk \in PairChunks : FeedStripper(id, chunk)

SpecPair == InitPair /\ [][NextPair]_vars

FedChunks(fed) == [i \in 1..Len(fed) |-> fed[i].chunk]

\* C29: however the feeds of two strippers are interleaved, each stripper
\* has returned exactly what a stripper fed the same fragments alone
\* returns, and after every feed the lastIndex of the shared regular
\* expression is back at 0.
C29_StrippersIndependent ==
    /\ \A id \in 1..Len(strippers) :
          strippers[id].out = FeedAll(FedChunks(strippers[id].fed), <<>>, 0)
    /\ lastIndex = 0

\* Stripper 2 is fed a complete sequence while stripper 1 holds the
\* beginning of one, which it then completes.
C29_Witness ==
    /\ Len(strippers) = 2
    /\ strippers[1].fed = <<[chunk |-> <<ESC>>, at |-> 1],
                            [chunk |-> <<109>>, at |-> 3]>>
    /\ strippers[2].fed = <<[chunk |-> <<ESC, 109>>, at |-> 2]>>
    /\ strippers[1].out = <<<<>>, <<>>>>
    /\ strippers[2].out = <<<<>>>>

----------------------------------------------------------------------------
(* The capability connection manager (McpManager of src/src/mcp/index.ts). *)
(* A name is a string; a client is the handle createMCPClient returned for *)
(* a server, told apart from the others by the order of its creation.      *)

DOT == 46

MaxCalls == 3

ServerNames == {<<97>>, <<97, DOT, 98>>}

ToolNames == {<<99>>, <<98, DOT, 99>>}

\* What client.tools() can resolve to: the tool names in the order of
\* Object.entries.
ToolLists == {<<>>, <<<<99>>>>, <<<<98, DOT, 99>>>>, <<<<99>>, <<98, DOT, 99>>>>}

McpConfigs ==
    [defined : BOOLEAN, enabled : BOOLEAN, servers : SUBSET ServerNames]

\* logDebug(message, debug): console.error when debug is on.
logDebug(log, text, subject, dbg) ==
    IF dbg THEN Append(log, [kind |-> "debug", text |-> text, subject |-> subject])
    ELSE log

\* logWarn(message): the warning is logged whatever the debug flag is.
logWarn(log, text, subject) ==
    Append(log, [text |-> text, server |-> subject])

\* Map.prototype.set: a new key goes last, a known key keeps its place.
MapSet(m, client) ==
    IF \E i \in DOMAIN m : m[i].name = client.name
    THEN [i \in DOMAIN m |-> IF m[i].name = client.name THEN client ELSE m[i]]
    ELSE Append(m, client)

\* get serverCount
serverCount == Len(clients)

\* get connectedServers
connectedServers == [i \in DOMAIN clients |-> clients[i].name]

\* `${serverName}.${toolName}`
namespacedName(server, tool) == server \o <<DOT>> \o tool

\* allTools[namespacedName] = tool: an assignment to a key the object
\* already has replaces its value.
PutTool(m, server, tool) ==
    LET key == namespacedName(server, tool) IN
    {e \in m : e.key # key} \cup {[key |-> key, server |-> server, tool |-> tool]}

RECURSIVE RegisterTools(_, _, _, _)
RegisterTools(m, server, serverTools, i) ==
    IF i > Len(serverTools) THEN m
    ELSE RegisterTools(PutTool(m, server, serverTools[i]), server, serverTools, i + 1)

RECURSIVE LogRegistered(_, _, _, _, _)
LogRegistered(log, server, serverTools, i, dbg) ==
    IF i > Len(serverTools) THEN log
    ELSE LogRegistered(logDebug(log, "Registered tool",
                                namespacedName(server, serverTools[i]), dbg),
                       server, serverTools, i + 1, dbg)

\* connect up to its first await: the early returns, or one pending
\* attempt per configured server (connectServer runs up to
\* `await createMCPClient`).
RECURSIVE LogConnecting(_, _, _)
LogConnecting(log, names, dbg) ==
    IF names = {} THEN log
    ELSE LET n == CHOOSE x \in names : \A y \in names : Len(x) <= Len(y) IN
         LogConnecting(logDebug(log, "Connecting to MCP server", n, dbg),
                       names \ {n}, dbg)

\* connect with a loop that awaits each server before it starts the next:
\* only the first attempt is in flight when connect first waits.
connectOneAtATime ==
    /\ pc = "connect"
    /\ IF ~config.defined \/ config.servers = {}
       THEN /\ stderr' = logDebug(stderr, "No MCP servers configured", <<>>, debug)
            /\ pc' = ret
            /\ UNCHANGED attempts
       ELSE IF ~config.enabled
       THEN /\ stderr' = logDebug(stderr, "MCP disabled in config", <<>>, debug)
            /\ pc' = ret
            /\ UNCHANGED attempts
       ELSE LET first == CHOOSE x \in config.servers :
                            \A y \in config.servers : Len(x) <= Len(y) IN
            /\ attempts' = [n \in {first} |-> "pending"]
            /\ stderr' = LogConnecting(stderr, {first}, debug)
            /\ pc' = "connecting"
    /\ UNCHANGED <<streamVars, fullText, stdout, clipboard, thrown, toolVars,
                   promptVars, exitCode, debug, config, clients, created,
                   warnings, closing, closed, closeCount, cursor, allTools,
                   reported, catalog, ret, calls, genVars>>

\* connect without the check of config.enabled.
connectIgnoresEnabled ==
    /\ pc = "connect"
    /\ IF ~config.defined \/ config.servers = {}
       THEN /\ stderr' = logDebug(stderr, "No MCP servers configured", <<>>, debug)
            /\ pc' = ret
            /\ UNCHANGED attempts
       ELSE /\ attempts' = [n \in config.servers |-> "pending"]
            /\ stderr' = LogConnecting(stderr, config.servers, debug)
            /\ pc' = "connecting"
    /\ UNCHANGED <<streamVars, fullText, stdout, clipboard, thrown, toolVars,
                   promptVars, exitCode, debug, config, clients, created,
                   warnings, closing, closed, closeCount, cursor, allTools,
                   reported, catalog, ret, calls, genVars>>

connect ==
    /\ pc = "connect"
    /\ IF ~config.defined \/ config.servers = {}
       THEN /\ stderr' = logDebug(stderr, "No MCP servers configured", <<>>, debug)
            /\ pc' = ret
            /\ UNCHANGED attempts
       ELSE IF ~config.enabled
       THEN /\ stderr' = logDebug(stderr, "MCP disabled in config", <<>>, debug)
            /\ pc' = ret
            /\ UNCHANGED attempts
       ELSE /\ attempts' = [n \in config.servers |-> "pending"]
            /\ stderr' = LogConnecting(stderr, config.servers, debug)
            /\ pc' = "connecting"
    /\ UNCHANGED <<streamVars, fullText, stdout, clipboard, thrown, toolVars,
                   promptVars, exitCode, debug, config, clients, created,
                   warnings, closing, closed, closeCount, cursor, allTools,
                   reported, catalog, ret, calls, genVars>>

\* The outcomes of createMCPClient: it resolves, or it rejects with a
\* message that reads like an interactive authorisation, or with another.
ConnectOutcomes == {"resolved", "oidc", "rejected"}

\* connectServer without the catch of connect: the McpError leaves connect.
connectServerUncaught(name, outcome) ==
    /\ pc = "connecting"
    /\ name \in DOMAIN attempts
    /\ attempts[name] = "pending"
    /\ attempts' = [attempts EXCEPT ![name] = outcome]
    /\ IF outcome = "resolved"
       THEN LET client == [name |-> name, id |-> Len(created) + 1] IN
            /\ clients' = MapSet(clients, client)
            /\ created' = Append(created, client)
            /\ stderr' = logDebug(stderr, "Connected to MCP server", name, debug)
            /\ UNCHANGED <<thrown, pc, genVars>>
       ELSE /\ thrown' = "McpError"
            /\ pc' = ret
            /\ UNCHANGED <<clients, created, stderr, genVars>>
    /\ UNCHANGED <<streamVars, fullText, stdout, clipboard, toolVars,
                   promptVars, exitCode, debug, config, warnings, closing,
                   closed, closeCount, cursor, allTools, reported, catalog,
                   ret, calls, genVars>>

\* One attempt settles: connectServer after `await createMCPClient`, and
\* the catch of connect around it.
connectServer(name, outcome) ==
    /\ pc = "connecting"
    /\ name \in DOMAIN attempts
    /\ attempts[name] = "pending"
    /\ attempts' = [attempts EXCEPT ![name] = outcome]
    /\ IF outcome = "resolved"
       THEN LET client == [name |-> name, id |-> Len(created) + 1] IN
            /\ clients' = MapSet(clients, client)
            /\ created' = Append(created, client)
            /\ stderr' = logDebug(stderr, "Connected to MCP server", name, debug)
            /\ UNCHANGED warnings
       ELSE /\ warnings' = logWarn(warnings,
                                   IF outcome = "oidc"
                                   THEN "OIDC/OAuth authentication is not supported"
                                   ELSE "Connection failed", name)
            /\ UNCHANGED <<clients, created, stderr, genVars>>
    /\ UNCHANGED <<pc, streamVars, fullText, stdout, clipboard, thrown, toolVars,
                   promptVars, exitCode, debug, config, closing, closed,
                   closeCount, cursor, allTools, reported, catalog, ret, calls, genVars>>

\* await Promise.all(connectPromises): every attempt has settled.
connectResolve ==
    /\ pc = "connecting"
    /\ \A n \in DOMAIN attempts : attempts[n] # "pending"
    /\ stderr' = logDebug(stderr, "Connected to MCP server(s)", serverCount, debug)
    /\ pc' = ret
    /\ UNCHANGED <<streamVars, fullText, stdout, clipboard, thrown, toolVars,
                   promptVars, exitCode, debug, mcpVars, genVars>>

\* getTools up to its first await.
getTools ==
    /\ pc = "getTools"
    /\ IF serverCount = 0
       THEN /\ catalog' = {}
            /\ reported' = <<>>
            /\ pc' = ret
            /\ UNCHANGED <<cursor, allTools, genVars>>
       ELSE /\ allTools' = {}
            /\ cursor' = 0
            /\ reported' = <<>>
            /\ pc' = "gettingTools"
            /\ UNCHANGED catalog
    /\ UNCHANGED <<streamVars, fullText, stdout, clipboard, thrown, toolVars,
                   promptVars, hostVars, config, clients, attempts, created,
                   warnings, closing, closed, closeCount, ret, calls, genVars>>

\* The iteration without its try/catch: the rejection leaves getTools.
getToolsNextUncaught(serverTools, failed) ==
    /\ pc = "gettingTools"
    /\ cursor < Len(clients)
    /\ LET serverName == clients[cursor + 1].name IN
       IF failed
       THEN /\ thrown' = "Error"
            /\ pc' = ret
            /\ reported' = Append(reported, [server |-> serverName, failed |-> TRUE,
                                             tools |-> <<>>])
            /\ UNCHANGED <<allTools, stderr, genVars>>
       ELSE /\ allTools' = RegisterTools(allTools, serverName, serverTools, 1)
            /\ stderr' = LogRegistered(stderr, serverName, serverTools, 1, debug)
            /\ reported' = Append(reported, [server |-> serverName, failed |-> FALSE,
                                             tools |-> serverTools])
            /\ UNCHANGED <<thrown, pc, genVars>>
    /\ cursor' = cursor + 1
    /\ UNCHANGED <<streamVars, fullText, stdout, clipboard, toolVars,
                   promptVars, exitCode, debug, config, clients, attempts,
                   created, warnings, closing, closed, closeCount, catalog, ret,
                   calls, genVars>>

\* One iteration of the loop over this.clients: `await client.tools()`
\* resolves to serverTools, or rejects (failed).
getToolsNext(serverTools, failed) ==
    /\ pc = "gettingTools"
    /\ cursor < Len(clients)
    /\ LET serverName == clients[cursor + 1].name IN
       IF failed
       THEN /\ warnings' = logWarn(warnings, "Failed to get tools from", serverName)
            /\ reported' = Append(reported, [server |-> serverName, failed |-> TRUE,
                                             tools |-> <<>>])
            /\ UNCHANGED <<allTools, stderr, genVars>>
       ELSE /\ allTools' = RegisterTools(allTools, serverName, serverTools, 1)
            /\ stderr' = LogRegistered(stderr, serverName, serverTools, 1, debug)
            /\ reported' = Append(reported, [server |-> serverName, failed |-> FALSE,
                                             tools |-> serverTools])
            /\ UNCHANGED warnings
    /\ cursor' = cursor + 1
    /\ UNCHANGED <<pc, streamVars, fullText, stdout, clipboard, thrown, toolVars,
                   promptVars, exitCode, debug, config, clients, attempts,
                   created, closing, closed, closeCount, catalog, ret, calls, genVars>>

\* The loop is over: getTools returns allTools.
getToolsReturn ==
    /\ pc = "gettingTools"
    /\ cursor = Len(clients)
    /\ stderr' = logDebug(stderr, "Total tools available", Cardinality(allTools), debug)
    /\ catalog' = allTools
    /\ pc' = ret
    /\ UNCHANGED <<streamVars, fullText, stdout, clipboard, thrown, toolVars,
                   promptVars, exitCode, debug, config, clients, attempts,
                   created, warnings, closing, closed, closeCount, cursor,
                   allTools, reported, ret, calls, genVars>>

\* close up to its first await: client.close() is invoked on every entry
\* of the Map, in its order.
close ==
    /\ pc = "close"
    /\ closed' = closed \o [i \in DOMAIN clients |->
                               [client |-> clients[i], settled |-> "pending"]]
    /\ closing' = {clients[i] : i \in DOMAIN clients}
    /\ pc' = "closing"
    /\ UNCHANGED <<streamVars, fullText, stdout, clipboard, thrown, toolVars,
                   promptVars, hostVars, config, clients, attempts, created,
                   warnings, closeCount, cursor, allTools, reported, catalog,
                   ret, calls, genVars>>

\* One client.close() settles: it resolved (ok) or rejected.
closeSettle(client, ok) ==
    /\ pc = "closing"
    /\ client \in closing
    /\ closing' = closing \ {client}
    /\ closed' = [i \in DOMAIN closed |->
                    IF closed[i].client = client /\ closed[i].settled = "pending"
                    THEN [closed[i] EXCEPT !.settled = IF ok THEN "resolved"
                                                       ELSE "rejected"]
                    ELSE closed[i]]
    /\ stderr' = logDebug(stderr, IF ok THEN "Closed MCP connection to"
                                  ELSE "Error closing", client.name, debug)
    /\ UNCHANGED <<pc, streamVars, fullText, stdout, clipboard, thrown, toolVars,
                   promptVars, exitCode, debug, config, clients, attempts,
                   created, warnings, closeCount, cursor, allTools,
                   reported, catalog, ret, calls, genVars>>

\* close without this.clients.clear(): the Map keeps the closed clients.
closeResolveKeepsClients ==
    /\ pc = "closing"
    /\ closing = {}
    /\ closeCount' = closeCount + 1
    /\ pc' = ret
    /\ UNCHANGED <<streamVars, fullText, stdout, clipboard, thrown, toolVars,
                   promptVars, hostVars, config, clients, attempts, created,
                   warnings, closing, closed, cursor, allTools, reported,
                   catalog, ret, calls, genVars>>

\* await Promise.all(closePromises); this.clients.clear()
closeResolve ==
    /\ pc = "closing"
    /\ closing = {}
    /\ clients' = <<>>
    /\ closeCount' = closeCount + 1
    /\ pc' = ret
    /\ UNCHANGED <<streamVars, fullText, stdout, clipboard, thrown, toolVars,
                   promptVars, hostVars, config, attempts, created, warnings,
                   closing, closed, cursor, allTools, reported, catalog, ret,
                   calls, genVars>>

\* A caller of the manager that awaits every call: connect first, then
\* getTools and close in any order.
InitMcp ==
    /\ pc = "idle"
    /\ chunks = <<>>
    /\ buffer = <<>>
    /\ lastIndex = 0
    /\ fullText = <<>>
    /\ stdout = <<>>
    /\ clipboard = <<>>
    /\ thrown = "none"
    /\ tools = [defined |-> FALSE, keys |-> {}]
    /\ steps = <<>>
    /\ query = <<>>
    /\ context = <<>>
    /\ userPrompt = <<>>
    /\ exitCode = -1
    /\ stderr = <<>>
    /\ debug \in BOOLEAN
    /\ McpIdle
    /\ GenIdle

CallConnect(cfg) ==
    /\ pc = "idle"
    /\ calls = 0
    /\ config' = cfg
    /\ pc' = "connect"
    /\ ret' = "idle"
    /\ calls' = calls + 1
    /\ UNCHANGED <<streamVars, fullText, stdout, clipboard, thrown, toolVars,
                   promptVars, hostVars, clients, attempts, created, warnings,
                   closing, closed, closeCount, cursor, allTools, reported,
                   catalog, genVars>>

CallGetTools ==
    /\ pc = "idle"
    /\ calls > 0
    /\ calls < MaxCalls
    /\ pc' = "getTools"
    /\ ret' = "idle"
    /\ calls' = calls + 1
    /\ UNCHANGED <<streamVars, fullText, stdout, clipboard, thrown, toolVars,
                   promptVars, hostVars, config, clients, attempts, created,
                   warnings, closing, closed, closeCount, cursor, allTools,
                   reported, catalog, genVars>>

CallClose ==
    /\ pc = "idle"
    /\ calls > 0
    /\ calls < MaxCalls
    /\ pc' = "close"
    /\ ret' = "idle"
    /\ calls' = calls + 1
    /\ UNCHANGED <<streamVars, fullText, stdout, clipboard, thrown, toolVars,
                   promptVars, hostVars, config, clients, attempts, created,
                   warnings, closing, closed, closeCount, cursor, allTools,
                   reported, catalog, genVars>>

NextMcp ==
    \/ \E cfg \in McpConfigs : CallConnect(cfg)
    \/ connect
    \/ \E name \in ServerNames, outcome \in ConnectOutcomes : connectServer(name, outcome)
    \/ connectResolve
    \/ CallGetTools
    \/ getTools
    \/ \E serverTools \in ToolLists : getToolsNext(serverTools, FALSE)
    \/ getToolsNext(<<>>, TRUE)
    \/ getToolsReturn
    \/ CallClose
    \/ close
    \/ \E client \in closing, ok \in BOOLEAN : closeSettle(client, ok)
    \/ closeResolve

SpecMcp == InitMcp /\ [][NextMcp]_vars

\* The servers whose connection attempt succeeded.
SucceededServers == {n \in DOMAIN attempts : attempts[n] = "resolved"}

FailedServers == {n \in DOMAIN attempts : attempts[n] \in {"oidc", "rejected"}}

\* C11: once connect has resolved, connectedServers is exactly the set of
\* servers whose attempt succeeded and serverCount is its size; every
\* enabled configured server was attempted; connect did not reject; each
\* failed server left exactly one warning and no client, and no other
\* warning was logged.
C11_ConnectIsolatesFailures ==
    (pc = "idle" /\ calls = 1) =>
       /\ {connectedServers[i] : i \in DOMAIN connectedServers} = SucceededServers
       /\ serverCount = Cardinality(SucceededServers)
       /\ (config.defined /\ config.enabled) => DOMAIN attempts = config.servers
       /\ thrown = "none"
       /\ \A n \in FailedServers :
             /\ Cardinality({i \in DOMAIN warnings : warnings[i].server = n}) = 1
             /\ \A i \in DOMAIN created : created[i].name # n
       /\ Len(warnings) = Cardinality(FailedServers)

C11_Witness ==
    /\ pc = "idle"
    /\ calls = 1
    /\ serverCount = 1
    /\ Cardinality(FailedServers) = 1
    /\ created[1].name = <<97, DOT, 98>>

\* C21: while connect waits, the attempt of every configured server has
\* been started, whatever has settled so far; connect resolves only when
\* no attempt is pending, and it can resolve as soon as none is.
C21_ConnectStartsAllThenAwaits ==
    /\ pc = "connecting" =>
          /\ DOMAIN attempts = config.servers
          /\ (\A n \in DOMAIN attempts : attempts[n] # "pending")
                => ENABLED connectResolve
    /\ (pc = "idle" /\ calls >= 1) =>
          \A n \in DOMAIN attempts : attempts[n] # "pending"

C21_Witness ==
    /\ pc = "connecting"
    /\ Cardinality(config.servers) = 2
    /\ \E n \in DOMAIN attempts : attempts[n] = "rejected"
    /\ \E n \in DOMAIN attempts : attempts[n] = "pending"

RECURSIVE ReportedToolCount(_)
ReportedToolCount(rs) ==
    IF rs = <<>> THEN 0
    ELSE Len(rs[Len(rs)].tools) + ReportedToolCount(SubSeq(rs, 1, Len(rs) - 1))

\* C12: the catalog getTools returned has one entry per (server, tool)
\* pair the connected servers reported: its size is the sum of the
\* per-server tool counts and every pair is found under
\* serverName + "." + toolName.
C12_NamespacedToolsUnique ==
    pc = "idle" =>
       /\ Cardinality(catalog) = ReportedToolCount(reported)
       /\ \A i \in DOMAIN reported : \A j \in DOMAIN reported[i].tools :
             [key |-> namespacedName(reported[i].server, reported[i].tools[j]),
              server |-> reported[i].server,
              tool |-> reported[i].tools[j]] \in catalog

\* How many times client.close() was invoked on a client.
CloseInvocations(client) ==
    Cardinality({i \in DOMAIN closed : closed[i].client = client})

\* The close() calls of clients that rejected.
RejectedCloses == {i \in DOMAIN closed : closed[i].settled = "rejected"}

\* "Error closing '<name>'" is on stderr.
CloseErrorLogged(name) ==
    \E k \in DOMAIN stderr :
       stderr[k].text = "Error closing" /\ stderr[k].subject = name

\* After one or more close() calls have resolved: no error was raised,
\* close() was invoked exactly once on every client connect created and
\* each of these calls has settled, and serverCount is 0.
CloseTearsDownOnce ==
    /\ thrown = "none"
    /\ serverCount = 0
    /\ Len(closed) = Len(created)
    /\ \A i \in DOMAIN created : CloseInvocations(created[i]) = 1
    /\ \A i \in DOMAIN closed : closed[i].settled # "pending"

C20_ToolListFailureIsolated ==
    (pc = "idle" /\ closeCount = 0) =>
       \A i \in DOMAIN reported : reported[i].failed =>
          /\ thrown = "none"
          /\ \A e \in catalog : e.server # reported[i].server
          /\ \E k \in DOMAIN warnings :
                /\ warnings[k].text = "Failed to get tools from"
                /\ warnings[k].server = reported[i].server
          /\ \E k \in DOMAIN connectedServers :
                connectedServers[k] = reported[i].server
          /\ \A j \in DOMAIN reported : \A t \in DOMAIN reported[j].tools :
                \E e \in catalog :
                   e.key = namespacedName(reported[j].server, reported[j].tools[t])

C20_Witness ==
    /\ pc = "idle"
    /\ closeCount = 0
    /\ Len(reported) = 2
    /\ reported[1].failed
    /\ Len(reported[2].tools) = 2
    /\ Cardinality(catalog) = 2

----------------------------------------------------------------------------
(* The entry point (main of cli.ts, the version that owns the manager).    *)
(* runQuery is taken here by its result only, the Answer it returns or the *)
(* ProviderError it raises: its own steps are the runners' above.          *)

managerVars == <<clients, attempts, created, warnings, closing, closed,
                 closeCount, cursor, allTools, reported, catalog>>

\* logError(message): console.error.
logError(log, text, subject) ==
    Append(log, [kind |-> "error", text |-> text, subject |-> subject])

\* The catch block of main: the error is reported and gives the exit code.
MainCatch(err) ==
    /\ thrown' = err
    /\ exitCode' = CatchExitCode(err)
    /\ stderr' = logError(stderr, IF IsQError(err) THEN "message"
                                  ELSE "Unexpected error", err)
    /\ pc' = "finally"

InitMain ==
    /\ pc = "main"
    /\ chunks = <<>>
    /\ buffer = <<>>
    /\ lastIndex = 0
    /\ fullText = <<>>
    /\ stdout = <<>>
    /\ clipboard = <<>>
    /\ thrown = "none"
    /\ tools = [defined |-> TRUE, keys |-> {}]
    /\ steps = <<>>
    /\ query = <<>>
    /\ context = <<>>
    /\ userPrompt = <<>>
    /\ HostIdle
    /\ McpIdle
    /\ GenIdle

\* What happens in main before the tools are set up: one of the commands
\* that return 0 (version, config, providers, help), an error (a usage or
\* configuration error, or an unexpected one), or none of these.
EarlyOutcomes == {"return", "UsageError", "Error", "continue"}

MainEarly(outcome, dbg) ==
    /\ pc = "main"
    /\ IF outcome = "return"
       THEN /\ exitCode' = 0
            /\ pc' = "finally"
            /\ debug' = dbg
            /\ UNCHANGED <<thrown, stderr, genVars>>
       ELSE IF outcome = "continue"
       THEN /\ pc' = "mainTools"
            /\ debug' = dbg
            /\ UNCHANGED <<thrown, stderr, exitCode, genVars>>
       ELSE /\ MainCatch(outcome)
            /\ debug' = dbg
    /\ UNCHANGED <<streamVars, fullText, stdout, clipboard, toolVars, promptVars,
                   mcpVars, genVars>>

\* if (!args.options.noTools) { await mcpManager.connect(config.mcp); ...
MainConnect(noTools, cfg) ==
    /\ pc = "mainTools"
    /\ IF noTools
       THEN /\ stderr' = logDebug(stderr, "MCP tools disabled via --no-tools", <<>>, debug)
            /\ pc' = "mainRun"
            /\ UNCHANGED <<config, ret, calls, genVars>>
       ELSE /\ config' = cfg
            /\ pc' = "connect"
            /\ ret' = "mainGetTools"
            /\ calls' = calls + 1
            /\ UNCHANGED stderr
    /\ UNCHANGED <<streamVars, fullText, stdout, clipboard, thrown, toolVars,
                   promptVars, exitCode, debug, managerVars, genVars>>

\* tools = await mcpManager.getTools();
MainGetTools ==
    /\ pc = "mainGetTools"
    /\ pc' = "getTools"
    /\ ret' = "mainRun"
    /\ calls' = calls + 1
    /\ UNCHANGED <<streamVars, fullText, stdout, clipboard, thrown, toolVars,
                   promptVars, hostVars, config, managerVars, genVars>>

\* runQuery fails and main's catch calls process.exit itself, as the
\* entry point did before it owned a manager.
MainRunQueryExitInCatch(text, failed) ==
    /\ pc = "mainRun"
    /\ tools' = [defined |-> TRUE, keys |-> {e.key : e \in catalog}]
    /\ IF failed
       THEN /\ thrown' = "ProviderError"
            /\ exitCode' = CatchExitCode("ProviderError")
            /\ stderr' = logError(stderr, "message", "ProviderError")
            /\ pc' = "exit"
            /\ UNCHANGED fullText
       ELSE /\ fullText' = text
            /\ pc' = "mainCopy"
            /\ UNCHANGED <<thrown, exitCode, stderr, genVars>>
    /\ UNCHANGED <<streamVars, stdout, clipboard, steps, promptVars, debug, mcpVars, genVars>>

\* const result = await runQuery({..., tools, debug});
MainRunQuery(text, failed) ==
    /\ pc = "mainRun"
    /\ tools' = [defined |-> TRUE, keys |-> {e.key : e \in catalog}]
    /\ IF failed
       THEN /\ MainCatch("ProviderError")
            /\ UNCHANGED fullText
       ELSE /\ fullText' = text
            /\ pc' = "mainCopy"
            /\ UNCHANGED <<thrown, exitCode, stderr, genVars>>
    /\ UNCHANGED <<streamVars, stdout, clipboard, steps, promptVars, debug, mcpVars, genVars>>

\* if (shouldCopy) { await clipboard.write(result.text); ... } return 0;
MainClipboard(shouldCopy, failed) ==
    /\ pc = "mainCopy"
    /\ IF shouldCopy /\ failed
       THEN /\ MainCatch("Error")
            /\ UNCHANGED clipboard
       ELSE /\ clipboard' = IF shouldCopy THEN Append(clipboard, fullText) ELSE clipboard
            /\ stderr' = IF shouldCopy
                         THEN logDebug(stderr, "Copied to clipboard", <<>>, debug)
                         ELSE stderr
            /\ exitCode' = 0
            /\ pc' = "finally"
            /\ UNCHANGED thrown
    /\ UNCHANGED <<streamVars, fullText, stdout, toolVars, promptVars, debug, mcpVars, genVars>>

\* finally { await mcpManager.close(); }
MainFinally ==
    /\ pc = "finally"
    /\ pc' = "close"
    /\ ret' = "mainExit"
    /\ calls' = calls + 1
    /\ UNCHANGED <<streamVars, fullText, stdout, clipboard, thrown, toolVars,
                   promptVars, hostVars, config, managerVars, genVars>>

\* main().then((exitCode) => { process.exit(exitCode); });
MainExit ==
    /\ pc = "mainExit"
    /\ pc' = "exit"
    /\ UNCHANGED <<streamVars, fullText, stdout, clipboard, thrown, toolVars,
                   promptVars, hostVars, mcpVars, genVars>>

NextMain ==
    \/ \E outcome \in EarlyOutcomes, dbg \in BOOLEAN : MainEarly(outcome, dbg)
    \/ \E noTools \in BOOLEAN, cfg \in McpConfigs : MainConnect(noTools, cfg)
    \/ connect
    \/ \E name \in ServerNames, outcome \in ConnectOutcomes : connectServer(name, outcome)
    \/ connectResolve
    \/ MainGetTools
    \/ getTools
    \/ \E serverTools \in ToolLists : getToolsNext(serverTools, FALSE)
    \/ getToolsNext(<<>>, TRUE)
    \/ getToolsReturn
    \/ \E text \in ModelTexts, failed \in BOOLEAN : MainRunQuery(text, failed)
    \/ \E shouldCopy \in BOOLEAN, failed \in BOOLEAN : MainClipboard(shouldCopy, failed)
    \/ MainFinally
    \/ close
    \/ \E client \in closing, ok \in BOOLEAN : closeSettle(client, ok)
    \/ closeResolve
    \/ MainExit

SpecMain == InitMain /\ [][NextMain]_vars

\* C13: when process.exit is called, McpManager.close() has been called
\* and has resolved, on whatever path main got there: close() was invoked
\* on every client the invocation created, every one of these calls has
\* settled, and the manager holds no client.
C13_ClosedBeforeExit ==
    pc = "exit" =>
       /\ closeCount = 1
       /\ closing = {}
       /\ serverCount = 0
       /\ \A i \in DOMAIN created : CloseInvocations(created[i]) = 1

\* Tools are off for the invocation: --no-tools (main makes no manager
\* call before the query), or a configuration without servers, or with
\* enabled = false.
ToolsOff ==
    \/ calls = 0
    \/ ~config.defined
    \/ config.servers = {}
    \/ ~config.enabled

\* C22: when tools are off, by the time the query runs no connection
\* attempt was made and no client exists, serverCount is 0, the catalog
\* is empty, and the tool set main hands to runQuery selects the
\* streaming path.
C22_ToolsOffMeansStreaming ==
    (pc \in {"mainRun", "mainCopy"} /\ ToolsOff) =>
       /\ attempts = <<>>
       /\ created = <<>>
       /\ serverCount = 0
       /\ catalog = {}
       /\ pc = "mainCopy" =>
             /\ tools.keys = {}
             /\ runQueryMode(tools) = "runWithStreaming"

C22_Witness ==
    /\ pc = "mainCopy"
    /\ calls = 2
    /\ config.defined
    /\ ~config.enabled
    /\ Cardinality(config.servers) = 2

C13_Witness ==
    /\ pc = "exit"
    /\ thrown = "ProviderError"
    /\ Len(created) = 2
    /\ exitCode = 1

----------------------------------------------------------------------------
(* One McpManager whose calls are not awaited by the caller: a call of     *)
(* connect or close is started while earlier calls are still in flight.    *)
(* pc holds one record per call, in the order the calls were made: its     *)
(* position, the attempts of a connect, the pending client.close() of a    *)
(* close.  created numbers the clients over all the calls.                 *)

MaxRace == 3

Call(kind, at, att, cl) ==
    [kind |-> kind, at |-> at, attempts |-> att, closing |-> cl]

\* new McpManager(): debug is off.
InitRace ==
    /\ pc = <<>>
    /\ chunks = <<>>
    /\ buffer = <<>>
    /\ lastIndex = 0
    /\ fullText = <<>>
    /\ stdout = <<>>
    /\ clipboard = <<>>
    /\ thrown = "none"
    /\ tools = [defined |-> FALSE, keys |-> {}]
    /\ steps = <<>>
    /\ query = <<>>
    /\ context = <<>>
    /\ userPrompt = <<>>
    /\ exitCode = -1
    /\ stderr = <<>>
    /\ debug = FALSE
    /\ McpIdle
    /\ GenIdle

\* connect(cfg) is called: it runs up to its first await.
connectCalled(cfg) ==
    /\ Len(pc) < MaxRace
    /\ config' = cfg
    /\ calls' = calls + 1
    /\ IF ~cfg.defined \/ cfg.servers = {}
       THEN /\ stderr' = logDebug(stderr, "No MCP servers configured", <<>>, debug)
            /\ pc' = Append(pc, Call("connect", "done", <<>>, {}))
       ELSE IF ~cfg.enabled
       THEN /\ stderr' = logDebug(stderr, "MCP disabled in config", <<>>, debug)
            /\ pc' = Append(pc, Call("connect", "done", <<>>, {}))
       ELSE /\ stderr' = LogConnecting(stderr, cfg.servers, debug)
            /\ pc' = Append(pc, Call("connect", "connecting",
                                     [n \in cfg.servers |-> "pending"], {}))
    /\ UNCHANGED <<streamVars, fullText, stdout, clipboard, thrown, toolVars,
                   promptVars, exitCode, debug, clients, attempts, created,
                   warnings, closing, closed, closeCount, cursor, allTools,
                   reported, catalog, ret, genVars>>

\* One attempt of the connect call k settles.
connectServerSettled(k, name, outcome) ==
    /\ k \in DOMAIN pc
    /\ pc[k].at = "connecting"
    /\ name \in DOMAIN pc[k].attempts
    /\ pc[k].attempts[name] = "pending"
    /\ pc' = [pc EXCEPT ![k].attempts[name] = outcome]
    /\ IF outcome = "resolved"
       THEN LET client == [name |-> name, id |-> Len(created) + 1] IN
            /\ clients' = MapSet(clients, client)
            /\ created' = Append(created, client)
            /\ stderr' = logDebug(stderr, "Connected to MCP server", name, debug)
            /\ UNCHANGED warnings
       ELSE /\ warnings' = logWarn(warnings,
                                   IF outcome = "oidc"
                                   THEN "OIDC/OAuth authentication is not supported"
                                   ELSE "Connection failed", name)
            /\ UNCHANGED <<clients, created, stderr>>
    /\ UNCHANGED <<streamVars, fullText, stdout, clipboard, thrown, toolVars,
                   promptVars, exitCode, debug, config, attempts, closing,
                   closed, closeCount, cursor, allTools, reported, catalog,
                   ret, calls, genVars>>

\* await Promise.all(connectPromises) of the connect call k.
connectResolved(k) ==
    /\ k \in DOMAIN pc
    /\ pc[k].at = "connecting"
    /\ \A n \in DOMAIN pc[k].attempts : pc[k].attempts[n] # "pending"
    /\ stderr' = logDebug(stderr, "Connected to MCP server(s)", serverCount, debug)
    /\ pc' = [pc EXCEPT ![k].at = "done"]
    /\ UNCHANGED <<streamVars, fullText, stdout, clipboard, thrown, toolVars,
                   promptVars, exitCode, debug, mcpVars, genVars>>

\* close() is called: client.close() is invoked on every entry the Map
\* has now.
closeCalled ==
    /\ Len(pc) < MaxRace
    /\ calls' = calls + 1
    /\ closed' = closed \o [i \in DOMAIN clients |->
                               [client |-> clients[i], settled |-> "pending"]]
    /\ pc' = Append(pc, Call("close", "closing", <<>>,
                             {clients[i] : i \in DOMAIN clients}))
    /\ UNCHANGED <<streamVars, fullText, stdout, clipboard, thrown, toolVars,
                   promptVars, hostVars, config, clients, attempts, created,
                   warnings, closing, closeCount, cursor, allTools, reported,
                   catalog, ret, genVars>>

\* One client.close() of the close call k settles.
closeSettled(k, client, ok) ==
    /\ k \in DOMAIN pc
    /\ pc[k].at = "closing"
    /\ client \in pc[k].closing
    /\ pc' = [pc EXCEPT ![k].closing = @ \ {client}]
    /\ LET i == CHOOSE j \in DOMAIN closed :
                   /\ closed[j].client = client
                   /\ closed[j].settled = "pending"
       IN closed' = [closed EXCEPT ![i].settled = IF ok THEN "resolved"
                                                  ELSE "rejected"]
    /\ stderr' = logDebug(stderr, IF ok THEN "Closed MCP connection to"
                                  ELSE "Error closing", client.name, debug)
    /\ UNCHANGED <<streamVars, fullText, stdout, clipboard, thrown, toolVars,
                   promptVars, exitCode, debug, config, clients, attempts,
                   created, warnings, closing, closeCount, cursor, allTools,
                   reported, catalog, ret, calls, genVars>>

\* await Promise.all(closePromises) of the close call k, then
\* this.clients.clear() on whatever the Map holds by now.
closeResolved(k) ==
    /\ k \in DOMAIN pc
    /\ pc[k].at = "closing"
    /\ pc[k].closing = {}
    /\ clients' = <<>>
    /\ closeCount' = closeCount + 1
    /\ pc' = [pc EXCEPT ![k].at = "done"]
    /\ UNCHANGED <<streamVars, fullText, stdout, clipboard, thrown, toolVars,
                   promptVars, hostVars, config, attempts, created, warnings,
                   closing, closed, cursor, allTools, reported, catalog, ret,
                   calls, genVars>>

NextRace ==
    \/ \E cfg \in McpConfigs : connectCalled(cfg)
    \/ \E k \in 1..MaxRace, name \in ServerNames, outcome \in ConnectOutcomes :
          connectServerSettled(k, name, outcome)
    \/ \E k \in 1..MaxRace : connectResolved(k)
    \/ closeCalled
    \/ \E k \in 1..MaxRace, client \in UNION {pc[j].closing : j \in DOMAIN pc},
          ok \in BOOLEAN : closeSettled(k, client, ok)
    \/ \E k \in 1..MaxRace : closeResolved(k)

SpecRace == InitRace /\ [][NextRace]_vars

InMap(client) == \E i \in DOMAIN clients : clients[i] = client

AllResolved == \A k \in DOMAIN pc : pc[k].at = "done"

\* C30: on one manager whose connect and close calls overlap, a client
\* leaves the Map only with its close() invoked, and once every call has
\* resolved, close() being the call made last, close() has been invoked on
\* every client that was created.
C30_NoConnectionLeaked ==
    /\ \A i \in DOMAIN created :
          InMap(created[i]) \/ CloseInvocations(created[i]) >= 1
    /\ (pc # <<>> /\ AllResolved /\ pc[Len(pc)].kind = "close") =>
          \A i \in DOMAIN created : CloseInvocations(created[i]) >= 1

====
